---- MODULE Spec2Model ----
(***************************************************************************)
(* Model of src/src/middleware.ts: the Next.js request gatekeeper.         *)
(*                                                                         *)
(* An invocation of middleware(request) reads the pathname, awaits the     *)
(* token lookup (its single suspension point) and then runs synchronously  *)
(* to a response: NextResponse.next() or NextResponse.redirect(url).       *)
(* Strings are TLA+ strings; startsWith, encodeURI and the URL query       *)
(* serialisation are computed character by character.                      *)
(***************************************************************************)
EXTENDS Integers, Sequences, FiniteSets, TLC

VARIABLES inv, hops

vars == <<inv, hops>>

(***************************************************************************)
(* Bounds of the model.                                                    *)
(***************************************************************************)
\* invocations of middleware that may be in flight at the same time
MaxInFlight == 2
\* requests a client issues in one chain of redirects before it gives up
MaxHops == 4

Slots == 1..MaxInFlight

(***************************************************************************)
(* Strings.                                                                *)
(***************************************************************************)
\* String.prototype.startsWith
startsWith(s, p) == Len(s) >= Len(p) /\ SubSeq(s, 1, Len(p)) = p

\* first position of the one-character string c in s, 0 when absent
RECURSIVE indexFrom(_, _, _)
indexFrom(s, c, k) ==
  IF k > Len(s) THEN 0
  ELSE IF SubSeq(s, k, k) = c THEN k
  ELSE indexFrom(s, c, k + 1)

indexOf(s, c) == indexFrom(s, c, 1)

Upper == {"A","B","C","D","E","F","G","H","I","J","K","L","M",
          "N","O","P","Q","R","S","T","U","V","W","X","Y","Z"}
Lower == {"a","b","c","d","e","f","g","h","i","j","k","l","m",
          "n","o","p","q","r","s","t","u","v","w","x","y","z"}
Digit == {"0","1","2","3","4","5","6","7","8","9"}
AlphaNum == Upper \cup Lower \cup Digit

\* %XX escapes of the ASCII characters the modelled URLs are written with
PctChars == {" ", "#", "%", "&", "+", "/", ":", "=", "?", "|"}

PctCode(c) ==
  CASE c = " " -> "%20"
    [] c = "#" -> "%23"
    [] c = "%" -> "%25"
    [] c = "&" -> "%26"
    [] c = "+" -> "%2B"
    [] c = "/" -> "%2F"
    [] c = ":" -> "%3A"
    [] c = "=" -> "%3D"
    [] c = "?" -> "%3F"
    [] c = "|" -> "%7C"

\* ECMAScript encodeURI: everything is escaped but the unreserved characters,
\* the URI reserved characters and '#'
UriReserved == {";", "/", "?", ":", "@", "&", "=", "+", "$", ","}
UriMark == {"-", "_", ".", "!", "~", "*", "'", "(", ")"}
UriUnescaped == AlphaNum \cup UriMark \cup UriReserved \cup {"#"}

RECURSIVE encodeURI(_)
encodeURI(s) ==
  IF s = "" THEN ""
  ELSE LET c == SubSeq(s, 1, 1)
       IN  (IF c \in UriUnescaped THEN c ELSE PctCode(c))
             \o encodeURI(SubSeq(s, 2, Len(s)))

\* application/x-www-form-urlencoded serialisation of one name or value, as
\* URLSearchParams writes it into the URL's query
FormSafe == AlphaNum \cup {"*", "-", ".", "_"}

RECURSIVE formEncode(_)
formEncode(s) ==
  IF s = "" THEN ""
  ELSE LET c == SubSeq(s, 1, 1)
       IN  (IF c \in FormSafe THEN c
            ELSE IF c = " " THEN "+"
            ELSE PctCode(c))
             \o formEncode(SubSeq(s, 2, Len(s)))

\* and its parser, by which the receiver of a redirect reads the query: '+' is
\* a space, %XX is the character it escapes
RECURSIVE formDecode(_)
formDecode(s) ==
  IF s = "" THEN ""
  ELSE LET c == SubSeq(s, 1, 1)
       IN  IF c = "%" /\ Len(s) >= 3
              /\ \E d \in PctChars : PctCode(d) = SubSeq(s, 1, 3)
           THEN (CHOOSE d \in PctChars : PctCode(d) = SubSeq(s, 1, 3))
                  \o formDecode(SubSeq(s, 4, Len(s)))
           ELSE (IF c = "+" THEN " " ELSE c)
                  \o formDecode(SubSeq(s, 2, Len(s)))

\* the name/value pairs of a query string ("" or "?a=b&c=d")
RECURSIVE parsePairs(_)
parsePairs(q) ==
  IF q = "" THEN <<>>
  ELSE LET amp  == indexOf(q, "&")
           one  == IF amp = 0 THEN q ELSE SubSeq(q, 1, amp - 1)
           rest == IF amp = 0 THEN "" ELSE SubSeq(q, amp + 1, Len(q))
           eq   == indexOf(one, "=")
           pair == IF eq = 0
                   THEN [name |-> formDecode(one), value |-> ""]
                   ELSE [name  |-> formDecode(SubSeq(one, 1, eq - 1)),
                         value |-> formDecode(SubSeq(one, eq + 1, Len(one)))]
       IN  IF one = "" THEN parsePairs(rest) ELSE <<pair>> \o parsePairs(rest)

searchParams(search) ==
  IF startsWith(search, "?") THEN parsePairs(SubSeq(search, 2, Len(search)))
  ELSE parsePairs(search)

(***************************************************************************)
(* URLs, requests, tokens and responses.                                   *)
(***************************************************************************)
\* new URL(relative, base) for a relative reference that begins with "/":
\* the base's origin, the reference's path and query
URL(relative, base) ==
  LET q == indexOf(relative, "?")
  IN  [origin   |-> base.origin,
       pathname |-> IF q = 0 THEN relative ELSE SubSeq(relative, 1, q - 1),
       search   |-> IF q = 0 THEN "" ELSE SubSeq(relative, q, Len(relative))]

\* url.href
href(url) == url.origin \o url.pathname \o url.search

\* url.searchParams.set(name, value) on a URL whose query is empty
searchParamsSet(url, name, value) ==
  [url EXCEPT !.search = "?" \o formEncode(name) \o "=" \o formEncode(value)]

\* request.url
requestUrl(request) == request.origin \o request.pathname \o request.search

\* request.url as the base of new URL(..)
requestBase(request) ==
  [origin |-> request.origin, pathname |-> request.pathname,
   search |-> request.search]

UserRole == [ADMIN |-> "ADMIN", AGENT |-> "AGENT",
             EMPLOYEE |-> "EMPLOYEE", USER |-> "USER"]

ApprovalStatus == [APPROVED |-> "APPROVED", PENDING |-> "PENDING"]

\* the result of getToken: null, or the decoded session token
null == <<>>

NoURL == [origin |-> "", pathname |-> "", search |-> ""]

\* NextResponse.next()
ResponseNext == [kind |-> "next", url |-> NoURL]

\* NextResponse.redirect(url)
ResponseRedirect(url) == [kind |-> "redirect", url |-> url]

NoResponse == [kind |-> "none", url |-> NoURL]

(***************************************************************************)
(* middleware(request): the decision.                                      *)
(***************************************************************************)
\* Public routes that don't require authentication
publicRoutes ==
  <<"/", "/login", "/register", "/register/agent", "/register/employee",
    "/approval", "/forgot-password", "/reset-password", "/map", "/rate",
    "/callback">>

\* Public API routes that don't require authentication
publicApiRoutes ==
  <<"/api/public/", "/api/agents/nearby", "/api/auth/", "/api/users/search",
    "/api/ratings", "/api/callbacks", "/api/questions", "/api/complaints",
    "/api/locations", "/api/locations/search", "/api/locations/autocomplete",
    "/api/locations/geocode", "/api/locations/reverse-geocode">>

\* publicRoutes.some(..)
isPublicRoute(pathname) ==
  \E k \in 1..Len(publicRoutes) :
    LET route == publicRoutes[k]
    IN  pathname = route \/ startsWith(pathname, route \o "/")

\* publicApiRoutes.some(..)
isPublicApiRoute(pathname) ==
  \E k \in 1..Len(publicApiRoutes) :
    LET route == publicApiRoutes[k]
    IN  startsWith(pathname, route)

isPublicAssetNoFonts(pathname) ==
  \/ startsWith(pathname, "/_next")
  \/ startsWith(pathname, "/images")
  \/ startsWith(pathname, "/favicon")

\* Allow access to public assets
isPublicAsset(pathname) ==
  \/ startsWith(pathname, "/_next")
  \/ startsWith(pathname, "/images")
  \/ startsWith(pathname, "/fonts")
  \/ startsWith(pathname, "/favicon")

isAuthPageLoginPrefix(pathname) ==
  startsWith(pathname, "/login") \/ startsWith(pathname, "/register")

\* the login page, or a path that begins like the register pages
isAuthPage(pathname) == pathname = "/login" \/ startsWith(pathname, "/register")

notApprovedAtLoginActiveOnly(token) ==
  /\ token.isActive
  /\ token.role # UserRole.ADMIN
  /\ token.role # UserRole.USER
  /\ token.approvalStatus # ApprovalStatus.APPROVED

\* Check approval status first (on the login and register pages)
notApprovedAtLogin(token) ==
  /\ token.role # UserRole.ADMIN
  /\ token.role # UserRole.USER
  /\ token.approvalStatus # ApprovalStatus.APPROVED

dashboardRedirectSwapped(token, request) ==
  IF token.role = UserRole.ADMIN
  THEN ResponseRedirect(URL("/admin", requestBase(request)))
  ELSE IF token.role = UserRole.AGENT
  THEN ResponseRedirect(URL("/employee", requestBase(request)))
  ELSE IF token.role = UserRole.EMPLOYEE
  THEN ResponseRedirect(URL("/agent", requestBase(request)))
  ELSE ResponseRedirect(URL("/", requestBase(request)))

\* Redirect to appropriate dashboard based on role
dashboardRedirect(token, request) ==
  IF token.role = UserRole.ADMIN
  THEN ResponseRedirect(URL("/admin", requestBase(request)))
  ELSE IF token.role = UserRole.AGENT
  THEN ResponseRedirect(URL("/agent", requestBase(request)))
  ELSE IF token.role = UserRole.EMPLOYEE
  THEN ResponseRedirect(URL("/employee", requestBase(request)))
  ELSE ResponseRedirect(URL("/", requestBase(request)))

loginRedirectRaw(request) ==
  ResponseRedirect(searchParamsSet(URL("/login", requestBase(request)),
                                   "callbackUrl", requestUrl(request)))

\* Redirect to login page with callback URL
loginRedirect(request) ==
  ResponseRedirect(searchParamsSet(URL("/login", requestBase(request)),
                                   "callbackUrl",
                                   encodeURI(requestUrl(request))))

inactiveRedirectNoError(request) ==
  ResponseRedirect(URL("/login", requestBase(request)))

\* Check if account is inactive
inactiveRedirect(request) ==
  ResponseRedirect(URL("/login?error=Account%20is%20inactive",
                       requestBase(request)))

notApprovedAgentExempt(role, approvalStatus) ==
  /\ role # UserRole.ADMIN
  /\ role # UserRole.USER
  /\ role # UserRole.AGENT
  /\ approvalStatus # ApprovalStatus.APPROVED

\* Check approval status for agents and employees
notApproved(role, approvalStatus) ==
  /\ role # UserRole.ADMIN
  /\ role # UserRole.USER
  /\ approvalStatus # ApprovalStatus.APPROVED

wrongRoleCopyPaste(pathname, role) ==
  \/ startsWith(pathname, "/admin") /\ role # UserRole.ADMIN
  \/ startsWith(pathname, "/agent") /\ role # UserRole.AGENT
  \/ startsWith(pathname, "/employee") /\ role # UserRole.AGENT

\* Admin routes, agent routes, employee routes
wrongRole(pathname, role) ==
  \/ startsWith(pathname, "/admin") /\ role # UserRole.ADMIN
  \/ startsWith(pathname, "/agent") /\ role # UserRole.AGENT
  \/ startsWith(pathname, "/employee") /\ role # UserRole.EMPLOYEE

\* the synchronous part of middleware, from the token lookup's result on
middleware(request, pathname, token) ==
  IF isPublicAsset(pathname) THEN ResponseNext
  ELSE IF isPublicRoute(pathname) \/ isPublicApiRoute(pathname)
  THEN IF token # null /\ isAuthPage(pathname)
       THEN IF notApprovedAtLogin(token[1])
            THEN ResponseRedirect(URL("/approval", requestBase(request)))
            ELSE dashboardRedirect(token[1], request)
       ELSE ResponseNext
  ELSE IF token = null THEN loginRedirect(request)
  ELSE LET role           == token[1].role
           approvalStatus == token[1].approvalStatus
           isActive       == token[1].isActive
       IN  IF ~isActive THEN inactiveRedirect(request)
           ELSE IF notApproved(role, approvalStatus)
           THEN ResponseRedirect(URL("/approval", requestBase(request)))
           ELSE IF wrongRole(pathname, role)
           THEN ResponseRedirect(URL("/", requestBase(request)))
           ELSE ResponseNext

(***************************************************************************)
(* The requests the environment sends.                                     *)
(***************************************************************************)
Origin == "http://h"

Paths ==
  {"/_next/data/a.json", "/images/logo.png", "/fonts/a.woff", "/favicon.ico",
   "/", "/login", "/login/help", "/register", "/register/agent", "/approval",
   "/map", "/api/auth/session", "/api/ratings",
   "/admin", "/admin/users", "/administrator", "/agent", "/agent/jobs",
   "/employee", "/employee/dashboard", "/dashboard", "/registered",
   "/loginx", "/api/users", "/a%20b|c"}

\* query strings of a serialised URL: '%' and '|' may stand in them
Searches == {"", "?q=a%20b|c&r=1"}

Roles == {UserRole.ADMIN, UserRole.AGENT, UserRole.EMPLOYEE, UserRole.USER,
          "GUEST"}

Tokens ==
  [role : Roles,
   approvalStatus : {ApprovalStatus.APPROVED, ApprovalStatus.PENDING},
   isActive : BOOLEAN]

\* what the session cookie of a request decodes to
Cookies == {null} \cup {<<t>> : t \in Tokens}

Requests ==
  [origin : {Origin}, pathname : Paths, search : Searches, cookie : Cookies]

Token(role, approvalStatus, isActive) ==
  <<[role |-> role, approvalStatus |-> approvalStatus, isActive |-> isActive]>>

\* the requests of the concurrent specification: one per branch of middleware
PairRequests ==
  [origin : {Origin},
   pathname : {"/images/logo.png", "/login", "/admin"},
   search : Searches,
   cookie : {null,
             Token(UserRole.ADMIN, ApprovalStatus.PENDING, TRUE),
             Token(UserRole.AGENT, ApprovalStatus.PENDING, TRUE),
             Token(UserRole.AGENT, ApprovalStatus.APPROVED, TRUE),
             Token(UserRole.AGENT, ApprovalStatus.APPROVED, FALSE)}]

(***************************************************************************)
(* Invocations.                                                            *)
(***************************************************************************)
NoRequest == [origin |-> "", pathname |-> "", search |-> "", cookie |-> null]

Idle ==
  [pc |-> "idle", request |-> NoRequest, pathname |-> "", token |-> null,
   response |-> NoResponse]

\* getToken({ req: request, secret }): the decoded session cookie, or null
getToken(request) == request.cookie

pathnameOfFirstSlot(i) == inv[1].pathname

\* the pathname binding the invocation made before the await
pathname(i) == inv[i].pathname

Init ==
  /\ inv = [i \in Slots |-> Idle]
  /\ hops = [i \in Slots |-> <<>>]

\* middleware is called: it reads request.nextUrl.pathname and awaits getToken
Call(i, request) ==
  [pc |-> "getToken", request |-> request, pathname |-> request.pathname,
   token |-> null, response |-> NoResponse]

\* a client sends a request of its own
Begin(i, request) ==
  /\ inv[i].pc = "idle"
  /\ inv' = [inv EXCEPT ![i] = Call(i, request)]
  /\ hops' = [hops EXCEPT ![i] = <<request.pathname>>]

\* getToken resolves and middleware runs to its return
Resume(i) ==
  /\ inv[i].pc = "getToken"
  /\ LET token == getToken(inv[i].request)
     IN  inv' = [inv EXCEPT ![i] =
                   [@ EXCEPT !.pc = "done",
                             !.token = token,
                             !.response =
                               middleware(inv[i].request, pathname(i), token)]]
  /\ UNCHANGED hops

\* the client follows the redirect: the same cookie, the Location's URL
Follow(i) ==
  /\ inv[i].pc = "done"
  /\ inv[i].response.kind = "redirect"
  /\ Len(hops[i]) < MaxHops
  /\ LET url == inv[i].response.url
         request == [origin |-> url.origin, pathname |-> url.pathname,
                     search |-> url.search, cookie |-> inv[i].request.cookie]
     IN  /\ inv' = [inv EXCEPT ![i] = Call(i, request)]
         /\ hops' = [hops EXCEPT ![i] = Append(@, url.pathname)]

\* the response is delivered and the invocation is over
Finish(i) ==
  /\ inv[i].pc = "done"
  /\ inv' = [inv EXCEPT ![i] = Idle]
  /\ hops' = [hops EXCEPT ![i] = <<>>]

\* one client, one invocation at a time, redirects followed
Next ==
  \/ \E request \in Requests : Begin(1, request)
  \/ Resume(1)
  \/ Follow(1)
  \/ Finish(1)

Spec == Init /\ [][Next]_vars

\* concurrent invocations, interleaved at the await
NextPair ==
  \E i \in Slots :
    \/ \E request \in PairRequests : Begin(i, request)
    \/ Resume(i)
    \/ Finish(i)

SpecPair == Init /\ [][NextPair]_vars

(***************************************************************************)
(* What the properties speak of.                                           *)
(***************************************************************************)
Done(i) == inv[i].pc = "done"
Req(i) == inv[i].request
Tok(i) == inv[i].token
Resp(i) == inv[i].response

StaticPrefixes == {"/_next", "/images", "/fonts", "/favicon"}

HasStaticPrefix(p) == \E pre \in StaticPrefixes : startsWith(p, pre)

IsPublic(p) == isPublicRoute(p) \/ isPublicApiRoute(p)

IsProtected(p) == ~HasStaticPrefix(p) /\ ~IsPublic(p)

\* the token passes the approval check
PassesApproval(t) ==
  t.role \in {"ADMIN", "USER"} \/ t.approvalStatus = "APPROVED"

\* a redirect to the path target on the request's origin, without a query
RedirectsTo(i, target) ==
  Resp(i) = [kind |-> "redirect",
             url |-> [origin |-> Req(i).origin, pathname |-> target,
                      search |-> ""]]

Allowed(i) == Resp(i) = [kind |-> "next", url |-> NoURL]

RolePrefixes == {<<"/admin", "ADMIN">>, <<"/agent", "AGENT">>,
                 <<"/employee", "EMPLOYEE">>}

RoleMismatch(p, role) ==
  \E pr \in RolePrefixes : startsWith(p, pr[1]) /\ role # pr[2]

RoleHome(role) ==
  CASE role = "ADMIN" -> "/admin"
    [] role = "AGENT" -> "/agent"
    [] role = "EMPLOYEE" -> "/employee"
    [] OTHER -> "/"

UnderRegister(p) == IsPublic(p) /\ startsWith(p, "/register")

(***************************************************************************)
(* Properties.                                                             *)
(***************************************************************************)
\* C1: a path with a static-asset prefix (/_next, /images, /fonts, /favicon)
\* is allowed through whatever the token lookup returned.
C1_StaticAlwaysAllowed ==
  \A i \in Slots :
    Done(i) /\ HasStaticPrefix(Req(i).pathname) => Allowed(i)

C1_Witness ==
  \E i \in Slots :
    /\ Done(i) /\ Req(i).pathname = "/fonts/a.woff"
    /\ Tok(i) # null /\ ~Tok(i)[1].isActive
    /\ Tok(i)[1].approvalStatus = "PENDING" /\ Allowed(i)

\* C2: a protected path without a token is redirected to /login with exactly
\* one query parameter, callbackUrl, whose value is encodeURI(request.url).
C2_NoTokenRedirectsToLogin ==
  \A i \in Slots :
    Done(i) /\ IsProtected(Req(i).pathname) /\ Tok(i) = null =>
      /\ Resp(i).kind = "redirect"
      /\ Resp(i).url.origin = Req(i).origin
      /\ Resp(i).url.pathname = "/login"
      /\ searchParams(Resp(i).url.search) =
           <<[name |-> "callbackUrl",
              value |-> encodeURI(requestUrl(Req(i)))]>>

C2_Witness ==
  \E i \in Slots :
    /\ Done(i) /\ Tok(i) = null
    /\ Req(i).pathname = "/a%20b|c" /\ Req(i).search # ""
    /\ Resp(i).url.search =
         "?callbackUrl=http%3A%2F%2Fh%2Fa%252520b%257Cc%3Fq%3Da%252520b%257Cc%26r%3D1"

\* C3: a protected path with an inactive token is redirected to
\* /login?error=Account%20is%20inactive, whatever the role, the approval
\* status and the path's role prefix.
C3_InactiveRedirectsToLoginError ==
  \A i \in Slots :
    Done(i) /\ IsProtected(Req(i).pathname) /\ Tok(i) # null
      /\ ~Tok(i)[1].isActive =>
      /\ Resp(i).kind = "redirect"
      /\ href(Resp(i).url) =
           Req(i).origin \o "/login?error=Account%20is%20inactive"
      /\ Resp(i).url.pathname = "/login"
      /\ searchParams(Resp(i).url.search) =
           <<[name |-> "error", value |-> "Account is inactive"]>>

C3_Witness ==
  \E i \in Slots :
    /\ Done(i) /\ Req(i).pathname = "/admin/users"
    /\ Tok(i) = Token("AGENT", "PENDING", FALSE)
    /\ Resp(i).url.pathname = "/login"

\* C4: an active token that passes the approval check, on a protected path:
\* redirected to / when the path starts with /admin, /agent or /employee and
\* the role is not the one that prefix requires, allowed through otherwise.
C4_RolePrefixGuard ==
  \A i \in Slots :
    Done(i) /\ IsProtected(Req(i).pathname) /\ Tok(i) # null
      /\ Tok(i)[1].isActive /\ PassesApproval(Tok(i)[1]) =>
      IF RoleMismatch(Req(i).pathname, Tok(i)[1].role)
      THEN RedirectsTo(i, "/")
      ELSE Allowed(i)

C4_Witness ==
  \E i \in Slots :
    /\ Done(i) /\ Req(i).pathname = "/employee/dashboard"
    /\ Tok(i) = Token("AGENT", "APPROVED", TRUE)
    /\ RedirectsTo(i, "/")

\* C5: a public path is allowed through when there is no token, and also when
\* there is a token and the path is neither /login nor starts with /register.
C5_PublicAllowed ==
  \A i \in Slots :
    Done(i) /\ IsPublic(Req(i).pathname)
      /\ (\/ Tok(i) = null
          \/ /\ Req(i).pathname # "/login"
             /\ ~startsWith(Req(i).pathname, "/register")) =>
      Allowed(i)

C5_Witness ==
  \E i \in Slots :
    /\ Done(i) /\ Req(i).pathname = "/login/help"
    /\ Tok(i) # null /\ ~Tok(i)[1].isActive /\ Allowed(i)

\* C6: a token whose role is neither ADMIN nor USER and whose approval status
\* is not APPROVED, on /login or a public path under /register, is redirected
\* to /approval, active or not.
C6_UnapprovedAtLoginToApproval ==
  \A i \in Slots :
    Done(i) /\ Tok(i) # null /\ ~PassesApproval(Tok(i)[1])
      /\ (Req(i).pathname = "/login" \/ UnderRegister(Req(i).pathname)) =>
      RedirectsTo(i, "/approval")

C6_Witness ==
  \E i \in Slots :
    /\ Done(i) /\ Req(i).pathname = "/register/agent"
    /\ Tok(i) = Token("EMPLOYEE", "PENDING", FALSE)
    /\ RedirectsTo(i, "/approval")

\* C7: a token that passes the approval check, on /login or a public path
\* under /register, is redirected to its role's home: ADMIN /admin, AGENT
\* /agent, EMPLOYEE /employee, USER and any other role /.
C7_ApprovedAtLoginToRoleHome ==
  \A i \in Slots :
    Done(i) /\ Tok(i) # null /\ PassesApproval(Tok(i)[1])
      /\ (Req(i).pathname = "/login" \/ UnderRegister(Req(i).pathname)) =>
      RedirectsTo(i, RoleHome(Tok(i)[1].role))

C7_Witness ==
  \E i \in Slots :
    /\ Done(i) /\ Req(i).pathname = "/register"
    /\ Tok(i) = Token("AGENT", "APPROVED", TRUE)
    /\ RedirectsTo(i, "/agent")

C9_RoleIsolation ==
  \A i \in Slots :
    Done(i) /\ Allowed(i) =>
      /\ startsWith(Req(i).pathname, "/admin") =>
           Tok(i) # null /\ Tok(i)[1].isActive /\ Tok(i)[1].role = "ADMIN"
      /\ startsWith(Req(i).pathname, "/agent") =>
           /\ Tok(i) # null /\ Tok(i)[1].isActive
           /\ Tok(i)[1].role = "AGENT"
           /\ Tok(i)[1].approvalStatus = "APPROVED"
      /\ startsWith(Req(i).pathname, "/employee") =>
           /\ Tok(i) # null /\ Tok(i)[1].isActive
           /\ Tok(i)[1].role = "EMPLOYEE"
           /\ Tok(i)[1].approvalStatus = "APPROVED"

C9_Witness ==
  \E i \in Slots :
    /\ Done(i) /\ Allowed(i) /\ Req(i).pathname = "/agent/jobs"
    /\ Tok(i) = Token("AGENT", "APPROVED", TRUE)

\* C10: a chain of redirects, followed with one fixed token, never comes back
\* to a path it has requested (so it ends in an allowed request).
C10_NoRedirectLoop ==
  \A i \in Slots :
    \A a, b \in 1..Len(hops[i]) : a # b => hops[i][a] # hops[i][b]

====
